---- MODULE Spec2Model ----
(***************************************************************************)
(* Orders service: the Order entity (orders-types), the two repository     *)
(* adapters and the feature-selected Repo (orders-repo), and OrderService  *)
(* (orders-hex), as a state machine.                                       *)
(*                                                                         *)
(* Strings the code inspects (customer_name, email) are sequences of       *)
(* one-character strings.  Timestamps are nanoseconds since the start of   *)
(* the run.  i64 and u32 are two's-complement / unsigned integers of       *)
(* I64Bits and U32Bits bits: TLC's integers are 32 bits wide, so the       *)
(* widths are scaled down, keeping U32Bits < I64Bits - 1 as in 32 < 63.    *)
(***************************************************************************)
EXTENDS Integers, Sequences, FiniteSets, TLC

VARIABLES
    features,         \* cargo features of orders-repo: "memory", "sqlite", "both"
    map,              \* InMemoryRepo.map: Uuid -> Order
    rows,             \* the orders table of SqliteRepo: id text -> DbOrder
    clock,            \* what Utc::now() returns
    uuids,            \* how many Uuid::new_v4() values were handed out
    calls,            \* per task: the service call in flight
    ev,               \* the call that completed in the last step, or NoEvent
    life,             \* history: per id "fresh", "live" or "deleted"
    returned,         \* history: per id the order create_order returned
    lastWrite,        \* history: per id the last write applied and the call it came from
    twin              \* a second OrderService over an InMemoryRepo of its own

vars == <<features, map, rows, clock, uuids, calls, ev,
          life, returned, lastWrite, twin>>

----------------------------------------------------------------------------
(* Bounds *)

I64Bits == 6
U32Bits == 3
MaxOrders == 2
MaxClock == 1
NumTasks == 2
MaxItems == 2

RECURSIVE Pow2(_)
Pow2(n) == IF n = 0 THEN 1 ELSE 2 * Pow2(n - 1)

I64Max == Pow2(I64Bits - 1) - 1
I64Min == 0 - Pow2(I64Bits - 1)
U32Max == Pow2(U32Bits) - 1

Ids == 1..MaxOrders
Tasks == 1..NumTasks
None == [none |-> TRUE]

----------------------------------------------------------------------------
(* orders-types: domain/order.rs *)

Pending == 0
Confirmed == 1
Shipped == 2
Cancelled == 3
Completed == 4
OrderStatus == {Pending, Confirmed, Shipped, Cancelled, Completed}

OrderItem(name, qty, unit_price_cents) ==
    [name |-> name, qty |-> qty, unit_price_cents |-> unit_price_cents]

IsWhitespace(c) == c \in {" ", "\t", "\n"}

\* str::trim: drop leading and trailing whitespace
RECURSIVE TrimStart(_)
TrimStart(s) ==
    IF s = <<>> THEN s
    ELSE IF IsWhitespace(Head(s)) THEN TrimStart(Tail(s)) ELSE s

RECURSIVE TrimEnd(_)
TrimEnd(s) ==
    IF s = <<>> THEN s
    ELSE IF IsWhitespace(s[Len(s)]) THEN TrimEnd(SubSeq(s, 1, Len(s) - 1)) ELSE s

Trim(s) == TrimEnd(TrimStart(s))

\* str::contains(char)
Contains(s, c) == \E i \in 1..Len(s) : s[i] = c

\* an i64 result reduced to the machine's width
WrapI64(x) == ((x - I64Min) % Pow2(I64Bits)) + I64Min

InI64(x) == I64Min <= x /\ x <= I64Max

\* items.iter().map(|it| (it.qty as i64) * it.unit_price_cents).sum():
\* the wrapped value and whether a multiplication or addition overflowed
RECURSIVE SumTotal(_, _, _)
SumTotal(items, i, acc) ==
    IF i > Len(items) THEN acc
    ELSE LET term == items[i].qty * items[i].unit_price_cents
             sum  == acc.val + WrapI64(term)
         IN  SumTotal(items, i + 1,
                      [val |-> WrapI64(sum),
                       ovf |-> acc.ovf \/ ~InI64(term) \/ ~InI64(sum)])

\* Order::new as it would be with the loop over the items' qty left out
OrderNewNoQtyCheck(customer_name, email, items, uuid, now, checks) ==
    IF Trim(customer_name) = <<>> THEN [kind |-> "err", msg |-> "customer_name empty"]
    ELSE IF ~Contains(email, "@") THEN [kind |-> "err", msg |-> "invalid email"]
    ELSE IF items = <<>> THEN [kind |-> "err", msg |-> "items empty"]
    ELSE [kind |-> "ok",
          order |-> [id |-> uuid,
                     customer_name |-> customer_name,
                     email |-> email,
                     items |-> items,
                     total_cents |-> SumTotal(items, 1, [val |-> 0, ovf |-> FALSE]).val,
                     status |-> Pending,
                     created_at |-> now,
                     updated_at |-> now]]

\* Order::new as it would be if it tested customer_name without trimming it
OrderNewNoTrim(customer_name, email, items, uuid, now, checks) ==
    IF customer_name = <<>> THEN [kind |-> "err", msg |-> "customer_name empty"]
    ELSE IF ~Contains(email, "@") THEN [kind |-> "err", msg |-> "invalid email"]
    ELSE IF items = <<>> THEN [kind |-> "err", msg |-> "items empty"]
    ELSE IF \E i \in 1..Len(items) : items[i].qty = 0
         THEN [kind |-> "err", msg |-> "item qty must be > 0"]
    ELSE [kind |-> "ok",
          order |-> [id |-> uuid,
                     customer_name |-> customer_name,
                     email |-> email,
                     items |-> items,
                     total_cents |-> SumTotal(items, 1, [val |-> 0, ovf |-> FALSE]).val,
                     status |-> Pending,
                     created_at |-> now,
                     updated_at |-> now]]

\* Order::new as it would be if it took one fixed Uuid instead of Uuid::new_v4()
OrderNewFixedId(customer_name, email, items, uuid, now, checks) ==
    IF Trim(customer_name) = <<>> THEN [kind |-> "err", msg |-> "customer_name empty"]
    ELSE IF ~Contains(email, "@") THEN [kind |-> "err", msg |-> "invalid email"]
    ELSE IF items = <<>> THEN [kind |-> "err", msg |-> "items empty"]
    ELSE IF \E i \in 1..Len(items) : items[i].qty = 0
         THEN [kind |-> "err", msg |-> "item qty must be > 0"]
    ELSE [kind |-> "ok",
          order |-> [id |-> 1,
                     customer_name |-> customer_name,
                     email |-> email,
                     items |-> items,
                     total_cents |-> SumTotal(items, 1, [val |-> 0, ovf |-> FALSE]).val,
                     status |-> Pending,
                     created_at |-> now,
                     updated_at |-> now]]

\* Order::new with the outcome of Uuid::new_v4() and Utc::now() passed in.
\* checks = the build's overflow checks.
OrderNew(customer_name, email, items, uuid, now, checks) ==
    IF Trim(customer_name) = <<>> THEN [kind |-> "err", msg |-> "customer_name empty"]
    ELSE IF ~Contains(email, "@") THEN [kind |-> "err", msg |-> "invalid email"]
    ELSE IF items = <<>> THEN [kind |-> "err", msg |-> "items empty"]
    ELSE IF \E i \in 1..Len(items) : items[i].qty = 0
         THEN [kind |-> "err", msg |-> "item qty must be > 0"]
    ELSE LET total == SumTotal(items, 1, [val |-> 0, ovf |-> FALSE])
         IN  IF total.ovf /\ checks
             THEN [kind |-> "panic"]
             ELSE [kind |-> "ok",
                   order |-> [id |-> uuid,
                              customer_name |-> customer_name,
                              email |-> email,
                              items |-> items,
                              total_cents |-> total.val,
                              status |-> Pending,
                              created_at |-> now,
                              updated_at |-> now]]

\* Order::update_status as it would be if a status could only move forward
OrderUpdateStatusForwardOnly(order, status, now) ==
    IF status > order.status
    THEN [order EXCEPT !.status = status, !.updated_at = now]
    ELSE order

\* Order::update_status as it would be with the status assignment left out
OrderUpdateStatusTimestampOnly(order, status, now) ==
    [order EXCEPT !.updated_at = now]

\* Order::update_status
OrderUpdateStatus(order, status, now) ==
    [order EXCEPT !.status = status, !.updated_at = now]

----------------------------------------------------------------------------
(* orders-repo: memory.rs *)

Insert(f, k, v) == (k :> v) @@ f
Remove(f, k) == [x \in DOMAIN f \ {k} |-> f[x]]

\* create as it would be with entry(order.id).or_insert(order.clone())
MemCreateKeepsExisting(m, order) ==
    [store |-> IF order.id \in DOMAIN m THEN m ELSE (order.id :> order) @@ m,
     res |-> [kind |-> "ok", order |-> order]]

\* InMemoryRepo::create: map.insert(order.id, order.clone()); Ok(order)
MemCreate(m, order) ==
    [store |-> Insert(m, order.id, order), res |-> [kind |-> "ok", order |-> order]]

\* InMemoryRepo::get: Ok(map.get(&id).map(|r| r.clone()))
MemGet(m, id) ==
    IF id \in DOMAIN m THEN [kind |-> "some", order |-> m[id]] ELSE [kind |-> "none"]

\* InMemoryRepo::update_status: get_mut holds the entry's lock across
\* v.update_status(status) and the clone
MemUpdateStatus(m, id, status, now) ==
    IF id \in DOMAIN m
    THEN LET v == OrderUpdateStatus(m[id], status, now)
         IN  [store |-> [m EXCEPT ![id] = v], res |-> [kind |-> "some", order |-> v]]
    ELSE [store |-> m, res |-> [kind |-> "none"]]

\* InMemoryRepo::delete as it would be if it looked the entry up without removing it
MemDeleteKeepsEntry(m, id) ==
    [store |-> m, res |-> [kind |-> "bool", value |-> id \in DOMAIN m]]

\* InMemoryRepo::delete: Ok(map.remove(&id).is_some())
MemDelete(m, id) ==
    [store |-> Remove(m, id), res |-> [kind |-> "bool", value |-> id \in DOMAIN m]]

----------------------------------------------------------------------------
(* orders-repo: sqlite.rs *)

NanosPerSec == 1000000000

\* Uuid::to_string and Uuid::parse_str
UuidToString(u) == <<"uuid", u>>
UuidParseStr(s) == s[2]

\* format!("{:?}", status)
DebugFmt(status) ==
    CASE status = Pending   -> "Pending"
      [] status = Confirmed -> "Confirmed"
      [] status = Shipped   -> "Shipped"
      [] status = Cancelled -> "Cancelled"
      [] status = Completed -> "Completed"

\* the match of DbOrder::into_order on the status column
ParseStatus(s) ==
    CASE s = "Pending"   -> Pending
      [] s = "Confirmed" -> Confirmed
      [] s = "Shipped"   -> Shipped
      [] s = "Cancelled" -> Cancelled
      [] s = "Completed" -> Completed
      [] OTHER           -> Pending

\* DateTime::to_rfc3339: whole seconds and the fraction printed with 0, 3, 6
\* or 9 digits, whichever is the fewest that loses nothing
ToRfc3339(t) ==
    LET nanos  == t % NanosPerSec
        digits == IF nanos = 0 THEN 0
                  ELSE IF nanos % 1000000 = 0 THEN 3
                  ELSE IF nanos % 1000 = 0 THEN 6 ELSE 9
        unit   == CASE digits = 0 -> NanosPerSec
                    [] digits = 3 -> 1000000
                    [] digits = 6 -> 1000
                    [] digits = 9 -> 1
    IN  [secs |-> t \div NanosPerSec, digits |-> digits, frac |-> nanos \div unit]

\* DateTime::parse_from_rfc3339(..).with_timezone(&Utc)
ParseFromRfc3339(s) ==
    LET unit == CASE s.digits = 0 -> NanosPerSec
                  [] s.digits = 3 -> 1000000
                  [] s.digits = 6 -> 1000
                  [] s.digits = 9 -> 1
    IN  s.secs * NanosPerSec + s.frac * unit

\* serde_json::to_string(&order.items) and serde_json::from_str
ItemToJson(it) == <<"name", it.name, "qty", it.qty, "unit_price_cents", it.unit_price_cents>>
ItemFromJson(j) == OrderItem(j[2], j[4], j[6])
ItemsToJson(items) == [i \in 1..Len(items) |-> ItemToJson(items[i])]
ItemsFromJson(json) == [i \in 1..Len(json) |-> ItemFromJson(json[i])]

\* the bound values as they would be with the customer name trimmed on the way in
ToDbOrderTrimmedName(order) ==
    [id            |-> UuidToString(order.id),
     customer_name |-> Trim(order.customer_name),
     email         |-> order.email,
     total_cents   |-> order.total_cents,
     status        |-> DebugFmt(order.status),
     created_at    |-> ToRfc3339(order.created_at),
     updated_at    |-> ToRfc3339(order.updated_at),
     items_json    |-> ItemsToJson(order.items)]

\* the values SqliteRepo::create binds to the INSERT
ToDbOrder(order) ==
    [id            |-> UuidToString(order.id),
     customer_name |-> order.customer_name,
     email         |-> order.email,
     total_cents   |-> order.total_cents,
     status        |-> DebugFmt(order.status),
     created_at    |-> ToRfc3339(order.created_at),
     updated_at    |-> ToRfc3339(order.updated_at),
     items_json    |-> ItemsToJson(order.items)]

\* DbOrder::into_order
IntoOrder(row) ==
    [id            |-> UuidParseStr(row.id),
     customer_name |-> row.customer_name,
     email         |-> row.email,
     items         |-> ItemsFromJson(row.items_json),
     total_cents   |-> row.total_cents,
     status        |-> ParseStatus(row.status),
     created_at    |-> ParseFromRfc3339(row.created_at),
     updated_at    |-> ParseFromRfc3339(row.updated_at)]

\* the uniqueness constraint of the orders table on id
PrimaryKeyViolation(t, key) == key \in DOMAIN t

\* SqliteRepo::create: INSERT INTO orders ...; Ok(order).  fail = the
\* statement failed in the driver
SqlCreate(t, order, fail) ==
    LET row == ToDbOrder(order)
    IN  IF fail \/ PrimaryKeyViolation(t, row.id)
        THEN [store |-> t, res |-> [kind |-> "DbError"]]
        ELSE [store |-> Insert(t, row.id, row), res |-> [kind |-> "ok", order |-> order]]

\* SqliteRepo::get: SELECT ... WHERE id = ?; row.map(into_order)
SqlGet(t, id, fail) ==
    LET key == UuidToString(id)
    IN  IF fail THEN [kind |-> "DbError"]
        ELSE IF key \in DOMAIN t THEN [kind |-> "some", order |-> IntoOrder(t[key])]
        ELSE [kind |-> "none"]

\* the UPDATE as it would be without its WHERE clause
SqlUpdateExecNoWhere(t, id, status, now, fail) ==
    LET key == UuidToString(id)
    IN  IF fail THEN [store |-> t, res |-> [kind |-> "DbError"]]
        ELSE [store |-> [k \in DOMAIN t |->
                            [t[k] EXCEPT !.status = DebugFmt(status),
                                         !.updated_at = ToRfc3339(now)]],
              res |-> [kind |-> "rows", affected |-> Cardinality(DOMAIN t)]]

\* the UPDATE as it would be if it set created_at along with updated_at
SqlUpdateExecSetsCreatedAt(t, id, status, now, fail) ==
    LET key == UuidToString(id)
    IN  IF fail THEN [store |-> t, res |-> [kind |-> "DbError"]]
        ELSE IF key \in DOMAIN t
        THEN [store |-> [t EXCEPT ![key].status = DebugFmt(status),
                                  ![key].created_at = ToRfc3339(now),
                                  ![key].updated_at = ToRfc3339(now)],
              res |-> [kind |-> "rows", affected |-> 1]]
        ELSE [store |-> t, res |-> [kind |-> "rows", affected |-> 0]]

\* the UPDATE as it would be if it set the status column alone
SqlUpdateExecStatusOnly(t, id, status, now, fail) ==
    LET key == UuidToString(id)
    IN  IF fail THEN [store |-> t, res |-> [kind |-> "DbError"]]
        ELSE IF key \in DOMAIN t
        THEN [store |-> [t EXCEPT ![key].status = DebugFmt(status)],
              res |-> [kind |-> "rows", affected |-> 1]]
        ELSE [store |-> t, res |-> [kind |-> "rows", affected |-> 0]]

\* the UPDATE statement of SqliteRepo::update_status and its rows_affected
SqlUpdateExec(t, id, status, now, fail) ==
    LET key == UuidToString(id)
    IN  IF fail THEN [store |-> t, res |-> [kind |-> "DbError"]]
        ELSE IF key \in DOMAIN t
        THEN [store |-> [t EXCEPT ![key].status = DebugFmt(status),
                                  ![key].updated_at = ToRfc3339(now)],
              res |-> [kind |-> "rows", affected |-> 1]]
        ELSE [store |-> t, res |-> [kind |-> "rows", affected |-> 0]]

\* SqliteRepo::delete as it would be if it answered Ok(true) whatever rows_affected says
SqlDeleteReportsTrue(t, id, fail) ==
    LET key == UuidToString(id)
    IN  IF fail THEN [store |-> t, res |-> [kind |-> "DbError"]]
        ELSE [store |-> Remove(t, key), res |-> [kind |-> "bool", value |-> TRUE]]

\* SqliteRepo::delete: DELETE FROM orders WHERE id = ?; rows_affected() > 0
SqlDelete(t, id, fail) ==
    LET key == UuidToString(id)
    IN  IF fail THEN [store |-> t, res |-> [kind |-> "DbError"]]
        ELSE [store |-> Remove(t, key),
              res |-> [kind |-> "bool", value |-> key \in DOMAIN t]]

\* SqliteRepo::list as it would be with LIMIT 1 on the SELECT
SqlListLimitOne(t, keys, fail) ==
    IF fail THEN [kind |-> "DbError"]
    ELSE [kind |-> "vec",
          orders |-> [i \in 1..(IF Len(keys) > 1 THEN 1 ELSE Len(keys)) |->
                         IntoOrder(t[keys[i]])]]

\* SqliteRepo::list: SELECT ... FROM orders (no ORDER BY: the rows come in
\* some order, here keys); each row through into_order
SqlList(t, keys, fail) ==
    IF fail THEN [kind |-> "DbError"]
    ELSE [kind |-> "vec", orders |-> [i \in 1..Len(keys) |-> IntoOrder(t[keys[i]])]]

----------------------------------------------------------------------------
(* orders-repo: lib.rs, impl OrderRepository for Repo, per feature set *)

\* which adapter a Repo method calls: the only adapter of a one-feature build;
\* with both features self.sqlite for create, get, list and update_status and
\* self.memory for delete
RepoBackend(op) ==
    IF features = "memory" THEN "memory"
    ELSE IF features = "sqlite" THEN "sqlite"
    ELSE IF op = "delete" THEN "memory" ELSE "sqlite"

\* Repo::create
RepoCreate(order, fail) ==
    IF RepoBackend("create") = "memory"
    THEN LET r == MemCreate(map, order) IN [map |-> r.store, rows |-> rows, res |-> r.res]
    ELSE LET r == SqlCreate(rows, order, fail) IN [map |-> map, rows |-> r.store, res |-> r.res]

\* Repo::get
RepoGet(id, fail) ==
    IF RepoBackend("get") = "memory" THEN MemGet(map, id) ELSE SqlGet(rows, id, fail)

\* Repo::delete: with both features it is the in-memory adapter that is called
RepoDelete(id, fail) ==
    IF RepoBackend("delete") = "sqlite"
    THEN LET r == SqlDelete(rows, id, fail) IN [map |-> map, rows |-> r.store, res |-> r.res]
    ELSE LET r == MemDelete(map, id) IN [map |-> r.store, rows |-> rows, res |-> r.res]

----------------------------------------------------------------------------
(* orders-hex: application/order_service.rs, the mapping to AppError *)

\* get_order and update_status: Some(o) => Ok(o), None => NotFound, Err => Internal
OptionToApp(r) ==
    CASE r.kind = "DbError" -> [res |-> "Internal", order |-> None]
      [] r.kind = "none"    -> [res |-> "NotFound", order |-> None]
      [] r.kind = "some"    -> [res |-> "ok", order |-> r.order]

\* delete_order: true => Ok(()), false => NotFound, Err => Internal
BoolToApp(r) ==
    CASE r.kind = "DbError" -> "Internal"
      [] r.kind = "bool"    -> IF r.value THEN "ok" ELSE "NotFound"

\* list_orders: Err => Internal
VecToApp(r) ==
    CASE r.kind = "DbError" -> [res |-> "Internal", orders |-> <<>>]
      [] r.kind = "vec"     -> [res |-> "ok", orders |-> r.orders]

\* the repository calls a service method has made when it returns: the `?` on
\* Order::new's Err leaves create_order before self.repo.create (reached is
\* FALSE); every other path makes its one call, and no method calls the
\* repository again after an Err.  repo = what the repository answered
RepoCallsWithRetry(reached, repo) ==
    IF ~reached THEN 0 ELSE IF repo = "DbError" THEN 2 ELSE 1

RepoCallsIssued(reached, repo) == IF reached THEN 1 ELSE 0

\* what the repository method answered, as one word
RepoKind(r) == IF r.kind = "bool" THEN (IF r.value THEN "true" ELSE "false") ELSE r.kind

----------------------------------------------------------------------------
(* The calls clients make *)

Input(customer_name, email, items) ==
    [customer_name |-> customer_name, email |-> email, items |-> items]

ValidA == Input(<<"A", "l">>, <<"a", "@", "b">>, <<OrderItem(<<"w">>, 2, 5)>>)
ValidB == Input(<<" ", "B">>, <<"@">>, <<OrderItem(<<>>, 1, -1), OrderItem(<<"g">>, 1, 3)>>)
BlankName == Input(<<" ">>, <<"a", "@", "b">>, <<OrderItem(<<"w">>, 1, 5)>>)
NoAt == Input(<<"A", "l">>, <<"a", "b">>, <<OrderItem(<<"w">>, 1, 5)>>)
NoItems == Input(<<"A", "l">>, <<"a", "@", "b">>, <<>>)
ZeroQty == Input(<<"A", "l">>, <<"a", "@", "b">>, <<OrderItem(<<"w">>, 1, 5), OrderItem(<<"g">>, 0, 1)>>)
\* every creation rule is met and qty * unit_price_cents exceeds i64::MAX
TooBig == Input(<<"A", "l">>, <<"a", "@", "b">>, <<OrderItem(<<"w">>, 2, I64Max)>>)
ServiceInputs == {ValidA, ValidB, BlankName, NoAt, NoItems, ZeroQty, TooBig}

\* the statuses the concurrent clients ask for
StatusArgs == {Confirmed, Shipped}

\* history of one id's last write: the call kind, the task whose call is still
\* running (0 once it returned), what it wrote, and whether that call returned
\* success since
Write(kind, by, status, updated_at, acked) ==
    [kind |-> kind, by |-> by, status |-> status, updated_at |-> updated_at,
     acked |-> acked]

NoWrite == Write("none", 0, Pending, 0, FALSE)

Idle == [op |-> "idle"]

NoEvent ==
    [op |-> "none", task |-> 0, id |-> 0, status |-> Pending, input |-> None,
     res |-> "none", order |-> None, orders |-> <<>>, ncalls |-> 0, repo |-> "nocall",
     pre |-> "none", start |-> "none", prevWrite |-> NoWrite,
     changed |-> FALSE, applied |-> FALSE, delSeen |-> {}, response |-> None,
     backend |-> "none", before |-> None]

Deleted == {i \in Ids : life[i] = "deleted"}

Range(f) == {f[x] : x \in DOMAIN f}
Perms(S) == {q \in [1..Cardinality(S) -> S] : Range(q) = S}

\* the twin service before any call
NoTwin == [map |-> <<>>, res |-> "none", order |-> None, orders |-> <<>>]

Init ==
    /\ features \in {"memory", "sqlite", "both"}
    /\ map = <<>>
    /\ rows = <<>>
    /\ clock = 0
    /\ uuids = 0
    /\ calls = [p \in Tasks |-> Idle]
    /\ ev = NoEvent
    /\ life = [i \in Ids |-> "fresh"]
    /\ returned = [i \in Ids |-> None]
    /\ lastWrite = [i \in Ids |-> NoWrite]
    /\ twin = NoTwin

\* the clock moves between any two steps, or does not
Tick ==
    /\ ev = NoEvent
    /\ clock < MaxClock
    /\ clock' = clock + 1
    /\ ev' = NoEvent
    /\ UNCHANGED <<features, map, rows, uuids, calls, life, returned, lastWrite>>

StoreChanged(newMap, newRows) == newMap # map \/ newRows # rows

\* OrderService::create_order up to the repository call: Order::new, and
\* BadRequest when it fails.  checks = whether the build panics on overflow
CreateOrderNew(p, input, checks) ==
    /\ ev = NoEvent
    /\ calls[p] = Idle
    /\ LET r == OrderNew(input.customer_name, input.email, input.items,
                         uuids + 1, clock, checks)
       IN  CASE r.kind = "err" ->
                  /\ ev' = [NoEvent EXCEPT !.op = "create", !.task = p, !.input = input,
                                           !.res = "BadRequest",
                                           !.ncalls = RepoCallsIssued(FALSE, "nocall")]
                  /\ UNCHANGED <<uuids, calls>>
             [] r.kind = "panic" ->
                  /\ ev' = [NoEvent EXCEPT !.op = "create", !.task = p, !.input = input,
                                           !.res = "panic",
                                           !.ncalls = RepoCallsIssued(FALSE, "nocall")]
                  /\ UNCHANGED <<uuids, calls>>
             [] r.kind = "ok" ->
                  /\ uuids < MaxOrders
                  /\ uuids' = uuids + 1
                  /\ calls' = [calls EXCEPT ![p] =
                                  [op |-> "create", input |-> input, order |-> r.order]]
                  /\ ev' = NoEvent
    /\ UNCHANGED <<features, map, rows, clock, life, returned, lastWrite>>

\* OrderService::create_order: self.repo.create(order.clone()), then Ok(order)
CreateOrderRepo(p, fail) ==
    /\ ev = NoEvent
    /\ calls[p].op = "create"
    /\ LET o == calls[p].order
           r == RepoCreate(o, fail)
       IN  /\ map' = r.map
           /\ rows' = r.rows
           /\ IF r.res.kind = "ok"
              THEN /\ ev' = [NoEvent EXCEPT !.op = "create", !.task = p, !.id = o.id,
                                            !.input = calls[p].input, !.res = "ok",
                                            !.order = o, !.repo = r.res.kind,
                                            !.ncalls = RepoCallsIssued(TRUE, r.res.kind),
                                            !.backend = RepoBackend("create"),
                                            !.pre = life[o.id], !.start = life[o.id],
                                            !.changed = StoreChanged(r.map, r.rows)]
                   /\ life' = [life EXCEPT ![o.id] = "live"]
                   /\ returned' = [returned EXCEPT ![o.id] = o]
                   /\ lastWrite' = [lastWrite EXCEPT ![o.id] =
                                       Write("create", 0, o.status, o.updated_at, TRUE)]
              ELSE /\ ev' = [NoEvent EXCEPT !.op = "create", !.task = p, !.id = o.id,
                                            !.input = calls[p].input, !.res = "Internal",
                                            !.repo = r.res.kind,
                                            !.ncalls = RepoCallsIssued(TRUE, r.res.kind),
                                            !.backend = RepoBackend("create"),
                                            !.pre = life[o.id], !.start = life[o.id],
                                            !.changed = StoreChanged(r.map, r.rows)]
                   /\ UNCHANGED <<life, returned, lastWrite>>
    /\ calls' = [calls EXCEPT ![p] = Idle]
    /\ UNCHANGED <<features, clock, uuids>>

\* OrderService::get_order
GetOrder(p, id, fail) ==
    /\ ev = NoEvent
    /\ calls[p] = Idle
    /\ LET g == RepoGet(id, fail)
           r == OptionToApp(g)
       IN  ev' = [NoEvent EXCEPT !.op = "get", !.task = p, !.id = id, !.res = r.res,
                                 !.order = r.order, !.repo = g.kind,
                                 !.ncalls = RepoCallsIssued(TRUE, g.kind),
                                 !.backend = RepoBackend("get"),
                                 !.pre = life[id], !.start = life[id],
                                 !.prevWrite = lastWrite[id]]
    /\ UNCHANGED <<features, map, rows, clock, uuids, calls,
                   life, returned, lastWrite>>

\* OrderService::delete_order
DeleteOrder(p, id, fail) ==
    /\ ev = NoEvent
    /\ calls[p] = Idle
    /\ LET r == RepoDelete(id, fail)
       IN  /\ map' = r.map
           /\ rows' = r.rows
           /\ ev' = [NoEvent EXCEPT !.op = "delete", !.task = p, !.id = id,
                                    !.res = BoolToApp(r.res), !.repo = RepoKind(r.res),
                                    !.ncalls = RepoCallsIssued(TRUE, r.res.kind),
                                    !.backend = RepoBackend("delete"),
                                    !.pre = life[id], !.start = life[id],
                                    !.prevWrite = lastWrite[id],
                                    !.changed = StoreChanged(r.map, r.rows)]
           /\ IF r.res.kind = "bool" /\ r.res.value
              THEN /\ life' = [life EXCEPT ![id] = "deleted"]
                   /\ lastWrite' = [lastWrite EXCEPT ![id] = NoWrite]
              ELSE UNCHANGED <<life, lastWrite>>
    /\ UNCHANGED <<features, clock, uuids, calls, returned>>

\* OrderService::update_status over the in-memory adapter
UpdateStatusMem(p, id, status) ==
    /\ RepoBackend("update_status") = "memory"
    /\ ev = NoEvent
    /\ calls[p] = Idle
    /\ LET r == MemUpdateStatus(map, id, status, clock)
           a == OptionToApp(r.res)
       IN  /\ map' = r.store
           /\ ev' = [NoEvent EXCEPT !.op = "update", !.task = p, !.id = id,
                                    !.status = status, !.res = a.res, !.order = a.order,
                                    !.repo = r.res.kind,
                                    !.ncalls = RepoCallsIssued(TRUE, r.res.kind),
                                    !.backend = RepoBackend("update_status"),
                                    !.pre = life[id], !.start = life[id],
                                    !.prevWrite = lastWrite[id],
                                    !.changed = StoreChanged(r.store, rows),
                                    !.applied = (r.res.kind = "some")]
           /\ IF r.res.kind = "some"
              THEN lastWrite' = [lastWrite EXCEPT ![id] =
                                    Write("update", 0, status, clock, TRUE)]
              ELSE UNCHANGED lastWrite
    /\ UNCHANGED <<features, rows, clock, uuids, calls, life, returned>>

\* OrderService::update_status over SqliteRepo: the UPDATE statement, and
\* Ok(None) when it touched no row
UpdateStatusExec(p, id, status, fail) ==
    /\ RepoBackend("update_status") = "sqlite"
    /\ ev = NoEvent
    /\ calls[p] = Idle
    /\ LET r == SqlUpdateExec(rows, id, status, clock, fail)
       IN  /\ rows' = r.store
           /\ CASE r.res.kind = "DbError" ->
                     /\ ev' = [NoEvent EXCEPT !.op = "update", !.task = p, !.id = id,
                                              !.status = status, !.res = "Internal",
                                              !.repo = "DbError",
                                              !.ncalls = RepoCallsIssued(TRUE, "DbError"),
                                              !.backend = RepoBackend("update_status"),
                                              !.pre = life[id],
                                              !.start = life[id],
                                              !.prevWrite = lastWrite[id],
                                              !.changed = StoreChanged(map, r.store)]
                     /\ UNCHANGED <<calls, lastWrite>>
                [] r.res.kind = "rows" /\ r.res.affected = 0 ->
                     /\ ev' = [NoEvent EXCEPT !.op = "update", !.task = p, !.id = id,
                                              !.status = status, !.res = "NotFound",
                                              !.repo = "none",
                                              !.ncalls = RepoCallsIssued(TRUE, "none"),
                                              !.backend = RepoBackend("update_status"),
                                              !.pre = life[id],
                                              !.start = life[id],
                                              !.prevWrite = lastWrite[id],
                                              !.changed = StoreChanged(map, r.store)]
                     /\ UNCHANGED <<calls, lastWrite>>
                [] r.res.kind = "rows" /\ r.res.affected > 0 ->
                     /\ ev' = NoEvent
                     /\ calls' = [calls EXCEPT ![p] =
                                     [op |-> "update", id |-> id, status |-> status,
                                      start |-> life[id]]]
                     /\ lastWrite' = [lastWrite EXCEPT ![id] =
                                         Write("update", p, status, clock, FALSE)]
    /\ UNCHANGED <<features, map, clock, uuids, life, returned>>

\* OrderService::update_status over SqliteRepo: self.get(id) after the UPDATE
UpdateStatusGet(p, fail) ==
    /\ ev = NoEvent
    /\ calls[p].op = "update"
    /\ LET id   == calls[p].id
           g    == SqlGet(rows, id, fail)
           r    == OptionToApp(g)
           mine == lastWrite[id].by = p
       IN  /\ ev' = [NoEvent EXCEPT !.op = "update", !.task = p, !.id = id,
                                    !.status = calls[p].status, !.res = r.res,
                                    !.order = r.order, !.repo = g.kind,
                                    !.ncalls = RepoCallsIssued(TRUE, g.kind),
                                    !.backend = RepoBackend("update_status"),
                                    !.pre = life[id], !.start = calls[p].start,
                                    !.prevWrite = lastWrite[id],
                                    !.applied = TRUE]
           /\ IF mine
              THEN lastWrite' = [lastWrite EXCEPT ![id].by = 0, ![id].acked = (r.res = "ok")]
              ELSE UNCHANGED lastWrite
    /\ calls' = [calls EXCEPT ![p] = Idle]
    /\ UNCHANGED <<features, map, rows, clock, uuids, life, returned>>

\* OrderService::list_orders over SqliteRepo
ListOrdersSql(p, keys, fail) ==
    /\ RepoBackend("list") = "sqlite"
    /\ ev = NoEvent
    /\ calls[p] = Idle
    /\ LET l == SqlList(rows, keys, fail)
           r == VecToApp(l)
       IN  ev' = [NoEvent EXCEPT !.op = "list", !.task = p, !.res = r.res,
                                 !.orders = r.orders, !.repo = l.kind,
                                 !.ncalls = RepoCallsIssued(TRUE, l.kind),
                                 !.backend = RepoBackend("list"),
                                 !.delSeen = Deleted]
    /\ UNCHANGED <<features, map, rows, clock, uuids, calls,
                   life, returned, lastWrite>>

\* OrderService::list_orders over the in-memory adapter: map.iter() starts
ListOrdersMem(p) ==
    /\ RepoBackend("list") = "memory"
    /\ ev = NoEvent
    /\ calls[p] = Idle
    /\ calls' = [calls EXCEPT ![p] =
                    [op |-> "list", remaining |-> Ids, acc |-> <<>>, delSeen |-> Deleted]]
    /\ ev' = NoEvent
    /\ UNCHANGED <<features, map, rows, clock, uuids,
                   life, returned, lastWrite>>

\* map.iter() comes to where key k lives and clones its value if it is there;
\* other tasks run between two entries.  After the last one: collect()
ListOrdersVisit(p, k) ==
    /\ ev = NoEvent
    /\ calls[p].op = "list"
    /\ k \in calls[p].remaining
    /\ LET acc  == IF k \in DOMAIN map THEN Append(calls[p].acc, map[k]) ELSE calls[p].acc
           rest == calls[p].remaining \ {k}
       IN  IF rest = {}
           THEN /\ calls' = [calls EXCEPT ![p] = Idle]
                /\ ev' = [NoEvent EXCEPT !.op = "list", !.task = p, !.res = "ok",
                                         !.orders = acc, !.repo = "vec",
                                         !.ncalls = RepoCallsIssued(TRUE, "vec"),
                                         !.backend = RepoBackend("list"),
                                         !.delSeen = calls[p].delSeen]
           ELSE /\ calls' = [calls EXCEPT ![p].remaining = rest, ![p].acc = acc]
                /\ ev' = NoEvent
    /\ UNCHANGED <<features, map, rows, clock, uuids,
                   life, returned, lastWrite>>

\* the service method returns to its caller: the outcome in ev is handed over
Respond ==
    /\ ev # NoEvent
    /\ ev' = NoEvent
    /\ UNCHANGED <<features, map, rows, clock, uuids, calls, life, returned, lastWrite>>

\* the service with NumTasks callers at once; the twin service is not called
Next ==
    \/ Tick /\ UNCHANGED twin
    \/ Respond /\ UNCHANGED twin
    \/ \E p \in Tasks, input \in ServiceInputs, checks \in BOOLEAN :
          CreateOrderNew(p, input, checks) /\ UNCHANGED twin
    \/ \E p \in Tasks, fail \in BOOLEAN : CreateOrderRepo(p, fail) /\ UNCHANGED twin
    \/ \E p \in Tasks, id \in Ids, fail \in BOOLEAN : GetOrder(p, id, fail) /\ UNCHANGED twin
    \/ \E p \in Tasks, id \in Ids, fail \in BOOLEAN : DeleteOrder(p, id, fail) /\ UNCHANGED twin
    \/ \E p \in Tasks, id \in Ids, status \in StatusArgs :
          UpdateStatusMem(p, id, status) /\ UNCHANGED twin
    \/ \E p \in Tasks, id \in Ids, status \in StatusArgs, fail \in BOOLEAN :
          UpdateStatusExec(p, id, status, fail) /\ UNCHANGED twin
    \/ \E p \in Tasks, fail \in BOOLEAN : UpdateStatusGet(p, fail) /\ UNCHANGED twin
    \/ \E p \in Tasks, fail \in BOOLEAN : \E keys \in Perms(DOMAIN rows) :
          ListOrdersSql(p, keys, fail) /\ UNCHANGED twin
    \/ \E p \in Tasks : ListOrdersMem(p) /\ UNCHANGED twin
    \/ \E p \in Tasks, k \in Ids : ListOrdersVisit(p, k) /\ UNCHANGED twin

Spec == Init /\ [][Next]_vars

----------------------------------------------------------------------------
(* One caller at a time, no driver failure, every status; the twin service *)
(* over an InMemoryRepo of its own is given each call as well              *)

\* the keys of m in increasing order
SortedKeys(S) ==
    CHOOSE q \in Perms(S) : \A a, b \in 1..Cardinality(S) : a < b => q[a] < q[b]

\* InMemoryRepo::list with nothing running alongside: every entry, cloned
MemList(m) == [kind |-> "vec", orders |-> [i \in 1..Cardinality(DOMAIN m) |-> m[SortedKeys(DOMAIN m)[i]]]]

\* OrderService::create_order of the twin up to the repository call
TwinNew(input, checks) ==
    LET r == OrderNew(input.customer_name, input.email, input.items, uuids + 1, clock, checks)
    IN  CASE r.kind = "err"   -> [twin EXCEPT !.res = "BadRequest"]
          [] r.kind = "panic" -> [twin EXCEPT !.res = "panic"]
          [] r.kind = "ok"    -> twin

\* OrderService::create_order of the twin: the repository call
TwinCreate(order) ==
    LET r == MemCreate(twin.map, order)
    IN  [map |-> r.store, res |-> "ok", order |-> order, orders |-> <<>>]

\* OrderService::get_order of the twin
TwinGet(id) ==
    LET a == OptionToApp(MemGet(twin.map, id))
    IN  [twin EXCEPT !.res = a.res, !.order = a.order]

\* OrderService::update_status of the twin
TwinUpdateStatus(id, status) ==
    LET r == MemUpdateStatus(twin.map, id, status, clock)
        a == OptionToApp(r.res)
    IN  [map |-> r.store, res |-> a.res, order |-> a.order, orders |-> <<>>]

\* OrderService::delete_order of the twin
TwinDelete(id) ==
    LET r == MemDelete(twin.map, id)
    IN  [map |-> r.store, res |-> BoolToApp(r.res), order |-> None, orders |-> <<>>]

\* OrderService::list_orders of the twin
TwinList ==
    LET a == VecToApp(MemList(twin.map))
    IN  [twin EXCEPT !.res = a.res, !.orders = a.orders]

\* the twin's method has returned as well
TwinRespond == [twin EXCEPT !.res = "none", !.order = None, !.orders = <<>>]

NextSeq ==
    \/ Tick /\ UNCHANGED twin
    \/ Respond /\ twin' = TwinRespond
    \/ \E input \in ServiceInputs, checks \in BOOLEAN :
          CreateOrderNew(1, input, checks) /\ twin' = TwinNew(input, checks)
    \/ CreateOrderRepo(1, FALSE) /\ twin' = TwinCreate(calls[1].order)
    \/ \E id \in Ids : GetOrder(1, id, FALSE) /\ twin' = TwinGet(id)
    \/ \E id \in Ids : DeleteOrder(1, id, FALSE) /\ twin' = TwinDelete(id)
    \/ \E id \in Ids, status \in OrderStatus :
          UpdateStatusMem(1, id, status) /\ twin' = TwinUpdateStatus(id, status)
    \/ \E id \in Ids, status \in OrderStatus :
          UpdateStatusExec(1, id, status, FALSE) /\ twin' = TwinUpdateStatus(id, status)
    \/ UpdateStatusGet(1, FALSE) /\ UNCHANGED twin
    \/ \E keys \in Perms(DOMAIN rows) : ListOrdersSql(1, keys, FALSE) /\ twin' = TwinList
    \/ ListOrdersMem(1) /\ twin' = TwinList
    \/ \E k \in Ids : ListOrdersVisit(1, k) /\ UNCHANGED twin

SpecSeq == Init /\ [][NextSeq]_vars

----------------------------------------------------------------------------
(* Order::new on its own, over every input of a bounded set *)

NameChoices == {<<>>, <<" ">>, <<"A">>, <<" ", "A", " ">>}
EmailChoices == {<<>>, <<"a">>, <<"@">>, <<"a", "@", "b">>}
ItemChoices ==
    {OrderItem(<<>>, qty, price) :
        qty \in {0, 1, 2, U32Max}, price \in {I64Min, -1, 0, 3, I64Max}}
SeqsUpTo(S, n) == UNION {[1..k -> S] : k \in 0..n}
NewInputs ==
    {Input(name, email, items) :
        name \in NameChoices, email \in EmailChoices, items \in SeqsUpTo(ItemChoices, MaxItems)}

InitNew ==
    /\ features = "memory"
    /\ map = <<>>
    /\ rows = <<>>
    /\ clock = 0
    /\ uuids = 0
    /\ \E input \in NewInputs, checks \in BOOLEAN :
          calls = [p \in Tasks |->
                      IF p = 1 THEN [op |-> "new", input |-> input, checks |-> checks]
                      ELSE Idle]
    /\ ev = NoEvent
    /\ life = [i \in Ids |-> "fresh"]
    /\ returned = [i \in Ids |-> None]
    /\ lastWrite = [i \in Ids |-> NoWrite]
    /\ twin = NoTwin

\* one call of Order::new
ApplyNew ==
    /\ calls[1].op = "new"
    /\ LET input == calls[1].input
           r == OrderNew(input.customer_name, input.email, input.items,
                         uuids + 1, clock, calls[1].checks)
       IN  ev' = [NoEvent EXCEPT !.op = "new", !.task = 1, !.input = input,
                                 !.res = r.kind,
                                 !.order = IF r.kind = "ok" THEN r.order ELSE None]
    /\ calls' = [calls EXCEPT ![1] = Idle]
    /\ UNCHANGED <<features, map, rows, clock, uuids, life, returned, lastWrite, twin>>

NextNew == ApplyNew

SpecNew == InitNew /\ [][NextNew]_vars

----------------------------------------------------------------------------
(* orders-hex: errors.rs, impl IntoResponse for AppError, on its own *)

BAD_REQUEST == 400
NOT_FOUND == 404
INTERNAL_SERVER_ERROR == 500

\* AppError::BadRequest(m), NotFound(m), Internal(e): msg is m, or the text of e
AppError(kind, msg) == [kind |-> kind, msg |-> msg]

\* the literal "internal error", kept as one token
InternalErrorText == <<"internal error">>

\* serde_json's string escaping: a quote and a backslash get a backslash
RECURSIVE JsonEscape(_)
JsonEscape(str) ==
    IF str = <<>> THEN <<>>
    ELSE (IF Head(str) \in {"\"", "\\"} THEN <<"\\", Head(str)>> ELSE <<Head(str)>>)
           \o JsonEscape(Tail(str))

\* serde_json::to_string(&ErrorBody { error: msg })
ErrorBodyToJson(msg) ==
    <<"{", "\"", "error", "\"", ":", "\"">> \o JsonEscape(msg) \o <<"\"", "}">>

\* into_response as it would be if Internal passed the text of its cause on
IntoResponseWithCause(err) ==
    LET code == CASE err.kind = "BadRequest" -> BAD_REQUEST
                  [] err.kind = "NotFound"   -> NOT_FOUND
                  [] err.kind = "Internal"   -> INTERNAL_SERVER_ERROR
    IN  [code |-> code, content_type |-> "application/json", body |-> ErrorBodyToJson(err.msg)]

\* AppError::into_response
IntoResponse(err) ==
    LET cm == CASE err.kind = "BadRequest" -> [code |-> BAD_REQUEST, msg |-> err.msg]
                [] err.kind = "NotFound"   -> [code |-> NOT_FOUND, msg |-> err.msg]
                [] err.kind = "Internal"   ->
                     [code |-> INTERNAL_SERVER_ERROR, msg |-> InternalErrorText]
    IN  [code |-> cm.code, content_type |-> "application/json",
         body |-> ErrorBodyToJson(cm.msg)]

MaxMsgLen == 3
MsgChars == {"a", "\"", "\\"}
Messages == UNION {[1..n -> MsgChars] : n \in 0..MaxMsgLen}
AppErrors == {AppError(kind, msg) : kind \in {"BadRequest", "NotFound", "Internal"},
                                    msg \in Messages}

InitResponse ==
    /\ features = "memory"
    /\ map = <<>>
    /\ rows = <<>>
    /\ clock = 0
    /\ uuids = 0
    /\ \E err \in AppErrors :
          calls = [p \in Tasks |->
                      IF p = 1 THEN [op |-> "into_response", err |-> err] ELSE Idle]
    /\ ev = NoEvent
    /\ life = [i \in Ids |-> "fresh"]
    /\ returned = [i \in Ids |-> None]
    /\ lastWrite = [i \in Ids |-> NoWrite]
    /\ twin = NoTwin

\* a handler returns Err(err) and axum calls into_response on it
ApplyIntoResponse ==
    /\ calls[1].op = "into_response"
    /\ ev' = [NoEvent EXCEPT !.op = "into_response", !.task = 1, !.input = calls[1].err,
                             !.res = calls[1].err.kind,
                             !.response = IntoResponse(calls[1].err)]
    /\ calls' = [calls EXCEPT ![1] = Idle]
    /\ UNCHANGED <<features, map, rows, clock, uuids, life, returned, lastWrite, twin>>

NextResponse == ApplyIntoResponse

SpecResponse == InitResponse /\ [][NextResponse]_vars

----------------------------------------------------------------------------
(* What the claims speak of *)

\* the order the adapter behind get, list and update_status holds for id
HasStored(id) ==
    IF features = "memory" THEN id \in DOMAIN map ELSE UuidToString(id) \in DOMAIN rows
Stored(id) ==
    IF features = "memory" THEN map[id] ELSE IntoOrder(rows[UuidToString(id)])

\* the creation rules, as the specification states them
NameOk(name) == \E i \in 1..Len(name) : name[i] \notin {" ", "\t", "\n"}
EmailOk(email) == "@" \in Range(email)
ItemsOk(items) == Len(items) > 0 /\ \A i \in 1..Len(items) : items[i].qty > 0
ValidInput(input) ==
    NameOk(input.customer_name) /\ EmailOk(input.email) /\ ItemsOk(input.items)

\* the sum over items of qty * unit_price_cents, in the integers
RECURSIVE ExactSum(_)
ExactSum(items) ==
    IF items = <<>> THEN 0
    ELSE Head(items).qty * Head(items).unit_price_cents + ExactSum(Tail(items))

----------------------------------------------------------------------------
(* The claims.  An outcome "Internal" is the adapter's own failure (DbError), *)
(* which any call can meet; the claims below speak of calls it spares.       *)

\* C1: deletion finality.  Once delete_order(id) returned success, no adapter
\* holds an order under id, every get_order, update_status and delete_order
\* that completes on id reports NotFound, and a list_orders begun after the
\* deletion returns no order with that id, whatever ran before or alongside.
C1_DeletionFinality ==
    /\ \A i \in Ids : life[i] = "deleted" =>
          i \notin DOMAIN map /\ UuidToString(i) \notin DOMAIN rows
    /\ (ev.op \in {"get", "update", "delete"} /\ ev.pre = "deleted") =>
          ev.res \in {"NotFound", "Internal"}
    /\ (ev.op = "list" /\ ev.res = "ok") =>
          \A k \in 1..Len(ev.orders) : ev.orders[k].id \notin ev.delSeen

\* C1 witness: an update_status on an id deleted before reports NotFound while
\* another order is still stored
C1_Witness ==
    /\ ev.op = "update" /\ ev.pre = "deleted" /\ ev.res = "NotFound"
    /\ \E i \in Ids : i # ev.id /\ HasStored(i)

\* C2: delete_order on an order that create_order returned and that was not
\* deleted since returns success, and delete_order on a deleted id returns
\* NotFound, over each adapter and over the Repo of build_repo.
C2_DeleteLiveSucceeds ==
    ev.op = "delete" =>
        /\ ev.pre = "live" => ev.res \in {"ok", "Internal"}
        /\ ev.pre = "deleted" => ev.res \in {"NotFound", "Internal"}

C4_RoundTrip ==
    (ev.op = "get" /\ ev.prevWrite.kind = "create") =>
        /\ ev.res \in {"ok", "Internal"}
        /\ ev.res = "ok" => ev.order = returned[ev.id]

\* C4 witness: the durable adapter returns a two-item order created at a
\* time with a fraction of a second
C4_Witness ==
    /\ ev.op = "get" /\ ev.prevWrite.kind = "create" /\ ev.res = "ok"
    /\ features = "sqlite"
    /\ ev.order.created_at > 0
    /\ Len(ev.order.items) = 2

\* the state part of C5: an invalid input ends in BadRequest with no
\* repository call, and no create with an invalid input is ever pending
C5_InvalidInput ==
    /\ (ev.op = "create" /\ ~ValidInput(ev.input)) =>
          ev.res = "BadRequest" /\ ev.ncalls = 0 /\ ~ev.changed
    /\ \A p \in Tasks : calls[p].op = "create" => ValidInput(calls[p].input)

\* the step part of C5: the step that refuses an invalid input changes neither store
C5_StoreUntouched ==
    (ev'.op = "create" /\ ~ValidInput(ev'.input)) => (map' = map /\ rows' = rows)

\* C5: create_order with an input that breaks a creation rule returns
\* BadRequest, makes no repository call (no such call is ever pending on the
\* repository) and leaves both stores as they were.
C5_InvalidCreateRejected == []C5_InvalidInput /\ [][C5_StoreUntouched]_vars

\* C5 witness: an input whose only fault is a second item of qty 0 is
\* refused while an order is stored
C5_Witness ==
    /\ ev.op = "create" /\ ev.input = ZeroQty /\ ev.res = "BadRequest"
    /\ \E i \in Ids : HasStored(i)

\* C6: Order::new succeeds exactly when the name is non-empty after trimming,
\* the email contains '@', the items are non-empty and every qty is > 0; on
\* success the status is Pending and created_at equals updated_at.
C6_NewSucceedsIffValid ==
    ev.op = "new" =>
        /\ ev.res = "ok" <=> ValidInput(ev.input)
        /\ ev.res = "ok" =>
              ev.order.status = Pending /\ ev.order.created_at = ev.order.updated_at

\* C7: for every valid item list the created order's total_cents is the exact
\* sum of qty * unit_price_cents, with neither wrap-around nor abort.
C7_TotalIsExactSum ==
    (ev.op = "new" /\ ValidInput(ev.input)) =>
        ev.res = "ok" /\ ev.order.total_cents = ExactSum(ev.input.items)

\* C8: after update_status calls on one id, concurrent or not, the stored
\* (status, updated_at) is the pair that one single call wrote, the last one
\* applied: never the status of one call with the updated_at of another.
C8_NoTornUpdate ==
    \A i \in Ids : lastWrite[i].kind = "update" =>
        /\ HasStored(i)
        /\ Stored(i).status = lastWrite[i].status
        /\ Stored(i).updated_at = lastWrite[i].updated_at

\* C8 witness: two update_status calls on one id overlapped (the one that
\* returns last finds the other's status in place of the one it wrote itself),
\* both have completed and nothing else is running
C8_Witness ==
    /\ ev.op = "update" /\ ev.res = "ok" /\ ev.applied
    /\ \A p \in Tasks : calls[p] = Idle
    /\ lastWrite[ev.id].kind = "update" /\ lastWrite[ev.id].by = 0
    /\ ev.status # lastWrite[ev.id].status
    /\ lastWrite[ev.id].updated_at > 0

\* C9: an update_status(id, S) whose mutation was applied (the id existed)
\* returns success with an order of status S, whatever runs alongside.
C9_UpdateReturnsOwnMutation ==
    (ev.op = "update" /\ ev.applied) =>
        /\ ev.res \in {"ok", "Internal"}
        /\ ev.res = "ok" => ev.order.status = ev.status

\* C10: idempotence of absence.  get_order, update_status and delete_order
\* called on an id that was never created, or was created and then deleted,
\* report NotFound and leave both stores as they were, in every reachable
\* state, so however often and in whatever order they are repeated.
C10_AbsenceIdempotent ==
    (ev.op \in {"get", "update", "delete"} /\ ev.start \in {"fresh", "deleted"}) =>
        /\ ev.res \in {"NotFound", "Internal"}
        /\ ~ev.changed
        /\ ~HasStored(ev.id)
        /\ life[ev.id] = ev.start

\* C10 witness: a second delete_order of an order created and deleted
C10_Witness ==
    /\ ev.op = "delete" /\ ev.start = "deleted" /\ ev.res = "NotFound"
    /\ returned[ev.id] # None

\* C11: every service call ends in exactly one of success, BadRequest,
\* NotFound and Internal: a repository DbError gives Internal; an absent order
\* (None or false) gives NotFound for get_order, update_status and
\* delete_order; BadRequest comes only from create_order on an invalid input;
\* list_orders gives neither NotFound nor BadRequest and returns the empty
\* sequence as success when nothing was ever stored.
C11_ErrorTaxonomy ==
    ev.op \in {"create", "get", "list", "update", "delete"} =>
        /\ ev.res \in {"ok", "BadRequest", "NotFound", "Internal"}
        /\ ev.repo = "DbError" => ev.res = "Internal"
        /\ ev.repo \in {"none", "false"} =>
              ev.res = "NotFound" /\ ev.op \in {"get", "update", "delete"}
        /\ ev.res = "NotFound" => ev.repo \in {"none", "false"}
        /\ ev.res = "BadRequest" => ev.op = "create" /\ ~ValidInput(ev.input)
        /\ ev.op = "list" =>
              /\ ev.res \in {"ok", "Internal"}
              /\ (ev.res = "ok" /\ \A i \in Ids : life[i] = "fresh") => ev.orders = <<>>

C13_UpdatedNotBeforeCreated ==
    /\ \A i \in DOMAIN map : map[i].updated_at >= map[i].created_at
    /\ \A k \in DOMAIN rows :
          IntoOrder(rows[k]).updated_at >= IntoOrder(rows[k]).created_at

\* the step in which update_status writes to the stored order i: the whole of
\* InMemoryRepo::update_status, or the UPDATE statement of SqliteRepo
C13_UpdateWrites(i) ==
    \/ features = "memory" /\ ev = NoEvent /\ ev'.op = "update" /\ ev'.id = i /\ ev'.applied
    \/ \E p \in Tasks : calls[p] = Idle /\ calls'[p].op = "update" /\ calls'[p].id = i

\* the step part of C13: the write of an update_status leaves updated_at
\* strictly greater than it was
C13_StrictlyLater ==
    \A i \in Ids : C13_UpdateWrites(i) => Stored(i)'.updated_at > Stored(i).updated_at

\* C13: every stored order has updated_at >= created_at in every reachable
\* state, and each update_status that finds its order leaves updated_at
\* strictly greater than before, also when no clock advance lies between it
\* and the creation or the previous update.
C13_TimestampsOrdered ==
    []C13_UpdatedNotBeforeCreated /\ [][C13_StrictlyLater]_vars

\* C14: no transition graph is enforced.  An update_status on an existing
\* order succeeds for every pair of current and new status among the five, the
\* new status equal to the current one and Completed -> Pending included: it
\* returns the order with the new status and the stored status is the new one.
C14_AnyTransition ==
    (ev.op = "update" /\ ev.start = "live") =>
        /\ ev.res = "ok"
        /\ ev.order.status = ev.status
        /\ HasStored(ev.id) /\ Stored(ev.id).status = ev.status

\* C14 witness: an order that was Completed is set back to Pending
C14_Witness ==
    /\ ev.op = "update" /\ ev.start = "live" /\ ev.res = "ok"
    /\ ev.prevWrite.kind = "update" /\ ev.prevWrite.status = Completed
    /\ ev.status = Pending /\ ev.order.status = Pending

\* C15: no two successful create_order calls return the same id, an id once
\* returned is not handed out again after its order was deleted, and a stored
\* order's id is the key it is stored under (so it never changes), whatever
\* create_order, update_status and delete_order calls ran.
C15_IdsUniqueAndFixed ==
    /\ (ev.op = "create" /\ ev.res = "ok") => ev.pre = "fresh" /\ ev.order.id = ev.id
    /\ \A p, q \in Tasks :
          (p # q /\ calls[p].op = "create" /\ calls[q].op = "create") =>
              calls[p].order.id # calls[q].order.id
    /\ \A p \in Tasks : calls[p].op = "create" => life[calls[p].order.id] = "fresh"
    /\ \A i \in Ids : returned[i] # None => returned[i].id = i
    /\ \A i \in DOMAIN map : map[i].id = i
    /\ \A k \in DOMAIN rows :
          rows[k].id = k /\ UuidToString(IntoOrder(rows[k]).id) = k

\* C15 witness: create_order returns a new id after an earlier order was
\* updated and deleted
C15_Witness ==
    /\ ev.op = "create" /\ ev.res = "ok" /\ HasStored(ev.id)
    /\ \E j \in Ids : j # ev.id /\ life[j] = "deleted" /\ returned[j] # None

\* C16: with no other operation in flight, list_orders returns exactly one
\* entry for each id that create_order returned and no delete_order removed
\* since: none missing, none twice, none deleted; and each entry is the order
\* get_order returns for its id.
C16_ListExact ==
    ev.op = "list" =>
        /\ ev.res = "ok"
        /\ {ev.orders[k].id : k \in 1..Len(ev.orders)} = {i \in Ids : life[i] = "live"}
        /\ Len(ev.orders) = Cardinality({i \in Ids : life[i] = "live"})
        /\ \A k \in 1..Len(ev.orders) :
              LET g == OptionToApp(RepoGet(ev.orders[k].id, FALSE))
              IN  g.res = "ok" /\ g.order = ev.orders[k]

\* C16 witness: the durable adapter lists the one order left, its status
\* updated, after another order was deleted
C16_Witness ==
    /\ ev.op = "list" /\ ev.res = "ok" /\ features = "sqlite"
    /\ Len(ev.orders) = 1 /\ ev.orders[1].status = Cancelled
    /\ \E j \in Ids : life[j] = "deleted"

\* an order with its timestamps set aside
StripTimes(o) == [o EXCEPT !.created_at = 0, !.updated_at = 0]

\* C17: backend interchangeability.  For every sequence of service calls the
\* service over the repository in use (InMemoryRepo, SqliteRepo, or the Repo
\* of build_repo with both features) ends each call as the service over an
\* InMemoryRepo given the same calls does: the same outcome kind and the same
\* order contents, up to timestamps and the order of list results.
C17_SameAsInMemory ==
    ev.op \in {"create", "get", "list", "update", "delete"} =>
        /\ ev.res = twin.res
        /\ (ev.res = "ok" /\ ev.op \in {"create", "get", "update"}) =>
              StripTimes(ev.order) = StripTimes(twin.order)
        /\ ev.op = "list" =>
              /\ Len(ev.orders) = Len(twin.orders)
              /\ {StripTimes(ev.orders[k]) : k \in 1..Len(ev.orders)}
                    = {StripTimes(twin.orders[k]) : k \in 1..Len(twin.orders)}

\* the value of the "error" member of a JSON body {"error":"..."}: the text
\* between the opening and the closing quote with the escapes taken back
RECURSIVE JsonUnescape(_)
JsonUnescape(str) ==
    IF str = <<>> THEN <<>>
    ELSE IF Head(str) = "\\" /\ Len(str) > 1
         THEN <<str[2]>> \o JsonUnescape(SubSeq(str, 3, Len(str)))
         ELSE <<Head(str)>> \o JsonUnescape(Tail(str))

IsErrorBody(body) ==
    /\ Len(body) >= 8
    /\ SubSeq(body, 1, 6) = <<"{", "\"", "error", "\"", ":", "\"">>
    /\ SubSeq(body, Len(body) - 1, Len(body)) = <<"\"", "}">>

ErrorOf(body) == JsonUnescape(SubSeq(body, 7, Len(body) - 2))

\* C18: the response to an error.  BadRequest gives status 400 and NotFound
\* 404, each with the body {"error": <the error's message>}; every Internal
\* gives status 500 with the fixed body {"error": "internal error"}, so the
\* response to an Internal error is the same whatever the text of its cause.
C18_ErrorResponse ==
    ev.op = "into_response" =>
        LET err == ev.input
            rsp == ev.response
        IN  /\ IsErrorBody(rsp.body)
            /\ err.kind = "BadRequest" => rsp.code = 400 /\ ErrorOf(rsp.body) = err.msg
            /\ err.kind = "NotFound" => rsp.code = 404 /\ ErrorOf(rsp.body) = err.msg
            /\ err.kind = "Internal" =>
                  /\ rsp.code = 500
                  /\ ErrorOf(rsp.body) = <<"internal error">>
                  /\ \A other \in Messages :
                        IntoResponse(AppError("Internal", other)) = rsp

\* C18 witness: an Internal error whose cause has a quote in its text
C18_Witness ==
    /\ ev.op = "into_response" /\ ev.input.kind = "Internal"
    /\ "\"" \in Range(ev.input.msg)
    /\ ev.response.code = 500

\* C19: no partial success.  A service call that returns Internal has left
\* the stored orders exactly as they were before the call: an update_status
\* that returns an error has changed neither status nor updated_at, a
\* create_order that returns an error has stored nothing.
\* (ev.changed: the step that ended the call changed a store; ev.applied: the
\* UPDATE statement of the call found its row and set status and updated_at.)
C19_NoPartialSuccess ==
    (ev.op \in {"create", "get", "list", "update", "delete"} /\ ev.res = "Internal") =>
        ~ev.changed /\ ~ev.applied

\* an order meets every creation rule
ValidOrder(o) == NameOk(o.customer_name) /\ EmailOk(o.email) /\ ItemsOk(o.items)

\* C20: in every reachable state every order either adapter holds meets all
\* creation rules (customer_name non-empty after trim, '@' in email, items
\* non-empty, every qty > 0), whatever create_order, update_status and
\* delete_order calls ran, refused and failed ones included; and no order
\* that breaks a rule is on its way to the repository.
C20_StoredOrdersValid ==
    /\ \A i \in DOMAIN map : ValidOrder(map[i])
    /\ \A k \in DOMAIN rows : ValidOrder(IntoOrder(rows[k]))
    /\ \A p \in Tasks : calls[p].op = "create" => ValidOrder(calls[p].order)

\* C20 witness: a create_order with a blank name is refused while an order
\* whose name starts with a space is stored with its status updated
C20_Witness ==
    /\ ev.op = "create" /\ ev.input = BlankName /\ ev.res = "BadRequest"
    /\ \E i \in Ids :
          /\ HasStored(i)
          /\ Stored(i).customer_name = ValidB.customer_name
          /\ Stored(i).status = Shipped

\* the fields update_status has no business with
Frame(o) ==
    [id |-> o.id, customer_name |-> o.customer_name, email |-> o.email,
     items |-> o.items, total_cents |-> o.total_cents, created_at |-> o.created_at]

\* C21: update_status changes status and updated_at only.  The id,
\* customer_name, email, items, total_cents and created_at of an order are,
\* in the order an update_status returns and in the order either adapter
\* holds, those create_order gave it, whatever updates ran in between.
C21_UpdateFrame ==
    /\ (ev.op = "update" /\ ev.res = "ok") => Frame(ev.order) = Frame(returned[ev.id])
    /\ \A i \in DOMAIN map : returned[i] # None => Frame(map[i]) = Frame(returned[i])
    /\ \A i \in Ids :
          (UuidToString(i) \in DOMAIN rows /\ returned[i] # None) =>
              Frame(IntoOrder(rows[UuidToString(i)])) = Frame(returned[i])

\* C21 witness: the durable adapter returns a two-item order, updated later
\* than it was created
C21_Witness ==
    /\ ev.op = "update" /\ ev.res = "ok" /\ features = "sqlite"
    /\ Len(ev.order.items) = 2
    /\ ev.order.updated_at > ev.order.created_at
    /\ ev.order.status = Shipped

\* C22: delete returns true exactly when it removed the order.  Of the
\* delete(id) calls on one existing id, concurrent or not, the one that meets
\* the order returns true and removes it and every other returns false; a
\* delete that meets a stored order never returns false.
C22_DeleteTrueOnce ==
    (ev.op = "delete" /\ ev.repo \in {"true", "false"}) =>
        /\ ev.repo = "true" <=> ev.pre = "live"
        /\ ev.repo = "true" <=> ev.changed
        /\ ~HasStored(ev.id)

\* what the two adapters hold under id
Entry(id) ==
    [memory |-> IF id \in DOMAIN map THEN map[id] ELSE None,
     sqlite |-> IF UuidToString(id) \in DOMAIN rows THEN rows[UuidToString(id)] ELSE None]

\* the ids a step is entitled to write: the id of the create_order,
\* update_status or delete_order call it ends, or of the update_status whose
\* UPDATE statement it runs; none for get_order, list_orders and the rest
C23_Targets ==
    (IF ev'.op \in {"create", "update", "delete"} THEN {ev'.id} ELSE {})
    \cup {calls'[p].id : p \in {q \in Tasks : calls[q] = Idle /\ calls'[q].op = "update"}}

\* a step adds, removes or changes no stored order outside its targets
C23_StepFrame ==
    \A j \in Ids : j \notin C23_Targets => Entry(j)' = Entry(j)

\* C23: operations on one id leave every other order untouched.  No step of
\* create_order, update_status(id, _) or delete_order(id) adds, removes or
\* changes a stored order of another id, and no step of get_order or
\* list_orders changes any stored order.
C23_OthersUntouched == [][C23_StepFrame]_vars

\* C23 witness: a delete_order has removed one order while another, its
\* status updated before, is still stored
C23_Witness ==
    /\ ev.op = "delete" /\ ev.res = "ok" /\ ev.changed
    /\ \E j \in Ids : j # ev.id /\ HasStored(j) /\ Stored(j).status = Shipped

\* C24: update_status reports NotFound only when it applied no mutation.  In
\* every interleaving with delete and create calls on the same id, an
\* update_status(id, S) that returns NotFound has at no point written S or a
\* new updated_at to storage.
C24_NotFoundMeansNoWrite ==
    (ev.op = "update" /\ ev.res = "NotFound") => ~ev.applied /\ ~ev.changed

----------------------------------------------------------------------------
(* The two adapters called directly, with orders whose id the caller picks *)

InitRepo ==
    /\ features = "both"
    /\ map = <<>>
    /\ rows = <<>>
    /\ clock = 0
    /\ uuids = 0
    /\ calls = [p \in Tasks |-> Idle]
    /\ ev = NoEvent
    /\ life = [i \in Ids |-> "fresh"]
    /\ returned = [i \in Ids |-> None]
    /\ lastWrite = [i \in Ids |-> NoWrite]
    /\ twin = NoTwin

\* InMemoryRepo::create called with a valid order of id `id`
InMemoryRepoCreate(id, input) ==
    /\ ev = NoEvent
    /\ LET o == OrderNew(input.customer_name, input.email, input.items,
                         id, clock, TRUE).order
           r == MemCreate(map, o)
       IN  /\ map' = r.store
           /\ ev' = [NoEvent EXCEPT !.op = "repo.create", !.id = id, !.input = input,
                                    !.order = r.res.order, !.repo = r.res.kind,
                                    !.backend = "memory",
                                    !.pre = IF id \in DOMAIN map THEN "live" ELSE "fresh",
                                    !.before = [map |-> map, rows |-> rows]]
    /\ UNCHANGED <<features, rows, clock, uuids, calls, life, returned, lastWrite, twin>>

\* SqliteRepo::create called with a valid order of id `id`
SqliteRepoCreate(id, input, fail) ==
    /\ ev = NoEvent
    /\ LET o == OrderNew(input.customer_name, input.email, input.items,
                         id, clock, TRUE).order
           r == SqlCreate(rows, o, fail)
       IN  /\ rows' = r.store
           /\ ev' = [NoEvent EXCEPT !.op = "repo.create", !.id = id, !.input = input,
                                    !.order = IF r.res.kind = "ok" THEN r.res.order ELSE None,
                                    !.repo = r.res.kind,
                                    !.backend = "sqlite",
                                    !.pre = IF UuidToString(id) \in DOMAIN rows
                                            THEN "live" ELSE "fresh",
                                    !.before = [map |-> map, rows |-> rows]]
    /\ UNCHANGED <<features, map, clock, uuids, calls, life, returned, lastWrite, twin>>

NextRepo ==
    \/ Tick /\ UNCHANGED twin
    \/ Respond /\ UNCHANGED twin
    \/ \E id \in Ids, input \in {ValidA, ValidB} : InMemoryRepoCreate(id, input)
    \/ \E id \in Ids, input \in {ValidA, ValidB}, fail \in BOOLEAN :
          SqliteRepoCreate(id, input, fail)

SpecRepo == InitRepo /\ [][NextRepo]_vars

\* C25: repository create with an id that is already stored.  InMemoryRepo
\* answers Ok and holds the new order in place of the old one: as many orders
\* stored as before, and get(id) returns the new order.  SqliteRepo answers
\* DbError and its table, the row of that id included, is what it was.
C25_DuplicateCreate ==
    (ev.op = "repo.create" /\ ev.pre = "live") =>
        /\ ev.backend = "memory" =>
              /\ ev.repo = "ok"
              /\ ev.order.id = ev.id
              /\ Cardinality(DOMAIN map) = Cardinality(DOMAIN ev.before.map)
              /\ MemGet(map, ev.id) = [kind |-> "some", order |-> ev.order]
              /\ \A j \in DOMAIN map \ {ev.id} : map[j] = ev.before.map[j]
        /\ ev.backend = "sqlite" =>
              /\ ev.repo = "DbError"
              /\ rows = ev.before.rows
              /\ SqlGet(rows, ev.id, FALSE) = SqlGet(ev.before.rows, ev.id, FALSE)

\* InMemoryRepo::create replaced a different order of the same id while
\* another order and a row of the table were stored
C25_Witness ==
    /\ ev.op = "repo.create" /\ ev.pre = "live" /\ ev.backend = "memory"
    /\ ev.before.map[ev.id] # ev.order
    /\ ev.before.map[ev.id].created_at < ev.order.created_at
    /\ Cardinality(DOMAIN map) = 2
    /\ UuidToString(ev.id) \in DOMAIN rows

\* C26: with both adapters wired into one Repo a single backend serves every
\* repository call: each call goes to the adapter create writes to, and an
\* order create stored is found by get, update_status and delete and is in
\* the vector list returns.
C26_SingleBackend ==
    features = "both" =>
        /\ ev.backend \in {"none", RepoBackend("create")}
        /\ (ev.op \in {"get", "update", "delete"} /\ ev.start = "live"
               /\ ev.repo # "DbError") => ev.res # "NotFound"
        /\ (ev.op = "list" /\ ev.res = "ok") =>
              \A i \in Ids : life[i] = "live" =>
                 \E k \in 1..Len(ev.orders) : ev.orders[k].id = i

====
